---- MODULE Spec2Model ----
(***************************************************************************)
(* TicketVault: a registry of tickets whose seat number and lock flag are  *)
(* kept as encrypted handles (euint32 / ebool).  Every external function   *)
(* of the contract is one action; a failed require reverts the whole call, *)
(* so a reverted call leaves the storage and the ACL as they were and      *)
(* only the call's outcome (last) records it.                              *)
(***************************************************************************)
EXTENDS Integers, Sequences, FiniteSets, TLC

\* ---------------------------------------------------------------- bounds
\* Ciphertexts the coprocessor may hold in a run of Spec: a ticket takes two
\* (seat, lock flag), every lockTicket/unlockTicket one more.
MaxHandles == 5
\* The same for SpecInputs, whose callers choose every createTicket argument.
MaxInputHandles == 3

\* The same for SpecMetadata, whose callers choose the three metadata strings.
MaxMetadataHandles == 4

\* Tickets that exist when a run of SpecListed starts.
MaxListed == 3

\* Calls of the hook's functions started in a run of SpecHook.
MaxCalls == 2

\* ------------------------------------------------------------ principals
\* address(0)
Zero == "0x0"
\* address(this): the registry contract itself
This == "TicketVault"
\* msg.sender ranges over the externally owned accounts
Callers == {"alice", "bob"}
\* values of an address argument
Addresses == Callers \cup {Zero}

\* ---------------------------------------------------------------- inputs
EventNames == {"", "Concert"}
Venues == {"", "Arena"}
Dates == {"", "2025-03-15"}
\* the (eventName, venue, date) a caller may submit: at most one field left empty
Metadata ==
    {m \in EventNames \X Venues \X Dates : Cardinality({k \in 1..3 : m[k] = ""}) <= 1}
\* clear seat numbers a caller may encrypt
Seats == {7, 42}
\* ticket ids a call may name; the largest is never created
TicketIds == 0..(MaxHandles \div 2)

\* the handle an uninitialised euint32/ebool storage slot holds
NoHandle == 0
\* "no return value"
NoRet == -1

\* --------------------------------------------------------------- storage
VARIABLES
    tickets,       \* _tickets: ticket id -> Ticket
    ticketCount,   \* _ticketCount
    ownerTickets,  \* _ownerTickets: address -> sequence of ticket ids
    cipher,        \* the coprocessor's ciphertexts: cipher[h] is the clear value behind handle h
    acl,           \* the ACL: pairs <<handle, address>> allowed to use/decrypt the handle
    last           \* outcome of the latest call: function, revert reason, return value, events

\* state of the useTicketVault hook of one page
VARIABLES
    calls,              \* the hook's async calls started so far: function, ticket id, the await it is at
    togglingTickets,    \* useState<Set<number>>
    decryptingTickets,  \* useState<Set<number>>
    isCreating          \* useState(false)

vars == <<tickets, ticketCount, ownerTickets, cipher, acl, last,
          calls, togglingTickets, decryptingTickets, isCreating>>
\* what a call of the contract leaves alone
hook == <<calls, togglingTickets, decryptingTickets, isCreating>>
\* what a reverted call must leave alone
registry == <<tickets, ticketCount, ownerTickets, cipher, acl>>

\* struct Ticket, all fields at their Solidity default
EmptyTicket ==
    [eventName |-> "", venue |-> "", date |-> "",
     encryptedSeatNumber |-> NoHandle, isLocked |-> NoHandle,
     owner |-> Zero, exists |-> FALSE]

\* ------------------------------------------------------------- FHE calls
\* FHE.fromExternal / FHE.asEbool: register a ciphertext, its handle is the next index
NewHandle(c) == Len(c) + 1
\* FHE.allow(handle, account) / FHE.allowThis(handle)
allow(a, handle, account) == a \cup {<<handle, account>>}
\* the accounts allowed on a handle
Allowed(handle) == {p \in Callers \cup {This} : <<handle, p>> \in acl}
\* user decryption: the clear value, to an allowed account only
CanDecrypt(handle, account) == <<handle, account>> \in acl
Clear(handle) == cipher[handle]

\* ---------------------------------------------------------- view functions
getTicketCount == ticketCount
getOwnerTickets(owner) == ownerTickets[owner]
getTicketMetadata(ticketId) ==
    [eventName |-> tickets[ticketId].eventName, venue |-> tickets[ticketId].venue,
     date |-> tickets[ticketId].date, owner |-> tickets[ticketId].owner,
     exists |-> tickets[ticketId].exists]

\* ------------------------------------------------------------- requires
\* OwnerGateError without its first require
OwnerGateErrorNoExists(ticketId, sender) ==
    IF tickets[ticketId].owner # sender THEN "Not ticket owner" ELSE ""

\* OwnerGateError without its second require
OwnerGateErrorAnyCaller(ticketId, sender) ==
    IF ~tickets[ticketId].exists THEN "Ticket does not exist" ELSE ""

\* require(_tickets[ticketId].exists, ...); require(_tickets[ticketId].owner == msg.sender, ...)
OwnerGateError(ticketId, sender) ==
    IF ~tickets[ticketId].exists THEN "Ticket does not exist"
    ELSE IF tickets[ticketId].owner # sender THEN "Not ticket owner"
    ELSE ""

\* TransferError without the two requires on newOwner
TransferErrorGateOnly(ticketId, sender, newOwner) == OwnerGateError(ticketId, sender)

\* TransferError with the two requires on newOwner ahead of the owner gate
TransferErrorInputFirst(ticketId, sender, newOwner) ==
    IF newOwner = Zero THEN "Invalid new owner"
    ELSE IF newOwner = sender THEN "Cannot transfer to self"
    ELSE OwnerGateError(ticketId, sender)

\* the four requires of transferTicket, in order
TransferError(ticketId, sender, newOwner) ==
    IF OwnerGateError(ticketId, sender) # "" THEN OwnerGateError(ticketId, sender)
    ELSE IF newOwner = Zero THEN "Invalid new owner"
    ELSE IF newOwner = sender THEN "Cannot transfer to self"
    ELSE ""

\* createTicket taking the ciphertext without verifying its proof
CreateErrorNone(eventName, venue, date, proofOk) == ""

\* createTicket has no require of its own; only FHE.fromExternal can revert
CreateError(eventName, venue, date, proofOk) ==
    IF ~proofOk THEN "InvalidProof" ELSE ""

\* ------------------------------------------------------------ list update
\* position of the first occurrence of ticketId in list, 0 if none
RECURSIVE IndexFrom(_, _, _)
IndexFrom(list, ticketId, i) ==
    IF i > Len(list) THEN 0
    ELSE IF list[i] = ticketId THEN i
    ELSE IndexFrom(list, ticketId, i + 1)

\* RemoveTicket that pops without overwriting the match
RemoveTicketPopOnly(list, ticketId) ==
    IF IndexFrom(list, ticketId, 1) = 0 THEN list ELSE SubSeq(list, 1, Len(list) - 1)

\* RemoveTicket with a loop that never matches
RemoveTicketNever(list, ticketId) == list

\* RemoveTicket closing the gap by shifting the later elements down
RemoveTicketShift(list, ticketId) ==
    LET i == IndexFrom(list, ticketId, 1) IN
    IF i = 0 THEN list
    ELSE SubSeq(list, 1, i - 1) \o SubSeq(list, i + 1, Len(list))

\* the removal loop of transferTicket: overwrite the first match with the last element, pop
RemoveTicket(list, ticketId) ==
    LET i == IndexFrom(list, ticketId, 1) IN
    IF i = 0 THEN list
    ELSE SubSeq([list EXCEPT ![i] = list[Len(list)]], 1, Len(list) - 1)

\* _ownerTickets[owner].push(ticketId)
Push(list, ticketId) == Append(list, ticketId)

\* Increment that leaves the count alone
IncrementStuck(count) == count

\* _ticketCount++
Increment(count) == count + 1

\* a ticket created unlocked
InitialLockOpen == FALSE

\* the clear value createTicket passes to FHE.asEbool
InitialLockValue == TRUE

\* -------------------------------------------------------------- outcomes
\* what a call shows its caller: the revert reason ("" when it succeeded), the
\* return value and the events it emitted
Call(op, err, ret, events) == [op |-> op, err |-> err, ret |-> ret, events |-> events]

\* a revert: the storage and the ACL are rolled back, nothing is emitted
Revert(op, err) ==
    /\ last' = Call(op, err, NoRet, <<>>)
    /\ UNCHANGED registry

\* the hook as useState initialises it, no call started
InitHook ==
    /\ calls = <<>>
    /\ togglingTickets = {}
    /\ decryptingTickets = {}
    /\ isCreating = FALSE

Init ==
    /\ tickets = [i \in TicketIds |-> EmptyTicket]
    /\ ticketCount = 0
    /\ ownerTickets = [a \in Addresses |-> <<>>]
    /\ cipher = <<>>
    /\ acl = {}
    /\ last = Call("deploy", "", NoRet, <<>>)
    /\ InitHook

\* ---------------------------------------------------------------- actions
\* getEncryptedSeatNumber returning the lock field
getEncryptedSeatNumberLock(sender, ticketId) ==
    IF OwnerGateError(ticketId, sender) # ""
    THEN Revert("getEncryptedSeatNumber", OwnerGateError(ticketId, sender))
    ELSE /\ last' = Call("getEncryptedSeatNumber", "",
                         tickets[ticketId].isLocked, <<>>)
         /\ UNCHANGED registry

getEncryptedSeatNumber(sender, ticketId) ==
    IF OwnerGateError(ticketId, sender) # ""
    THEN Revert("getEncryptedSeatNumber", OwnerGateError(ticketId, sender))
    ELSE /\ last' = Call("getEncryptedSeatNumber", "",
                         tickets[ticketId].encryptedSeatNumber, <<>>)
         /\ UNCHANGED registry

getEncryptedLockStatus(sender, ticketId) ==
    IF OwnerGateError(ticketId, sender) # ""
    THEN Revert("getEncryptedLockStatus", OwnerGateError(ticketId, sender))
    ELSE /\ last' = Call("getEncryptedLockStatus", "",
                         tickets[ticketId].isLocked, <<>>)
         /\ UNCHANGED registry

createTicket(sender, eventName, venue, date, seat, proofOk) ==
    LET ticketId == ticketCount
        seatNumber == NewHandle(cipher)
        locked == NewHandle(cipher) + 1
    IN    IF CreateError(eventName, venue, date, proofOk) # ""
          THEN Revert("createTicket", CreateError(eventName, venue, date, proofOk))
          ELSE /\ ticketCount' = Increment(ticketCount)
               /\ cipher' = cipher \o <<seat, InitialLockValue>>
               /\ tickets' = [tickets EXCEPT ![ticketId] =
                     [eventName |-> eventName, venue |-> venue, date |-> date,
                      encryptedSeatNumber |-> seatNumber, isLocked |-> locked,
                      owner |-> sender, exists |-> TRUE]]
               /\ ownerTickets' = [ownerTickets EXCEPT ![sender] = Push(@, ticketId)]
               /\ acl' = allow(allow(allow(allow(acl, seatNumber, This), seatNumber, sender),
                                     locked, This), locked, sender)
               /\ last' = Call("createTicket", "", ticketId,
                               <<<<"TicketCreated", ticketId, sender, eventName>>>>)

\* SetLock overwriting the value behind the current lock handle instead of
\* storing a new handle
SetLockInPlace(op, sender, ticketId, value) ==
    IF OwnerGateError(ticketId, sender) # ""
    THEN Revert(op, OwnerGateError(ticketId, sender))
    ELSE LET handle == tickets[ticketId].isLocked
         IN /\ cipher' = [cipher EXCEPT ![handle] = value]
            /\ acl' = allow(allow(acl, handle, This), handle, sender)
            /\ last' = Call(op, "", NoRet,
                            <<<<"TicketLockStatusChanged", ticketId, sender>>>>)
            /\ UNCHANGED <<tickets, ticketCount, ownerTickets>>

\* SetLock assigning the fresh handle to the seat field instead of the lock field
SetLockSeat(op, sender, ticketId, value) ==
    IF OwnerGateError(ticketId, sender) # ""
    THEN Revert(op, OwnerGateError(ticketId, sender))
    ELSE LET handle == NewHandle(cipher)
            IN /\ cipher' = Append(cipher, value)
               /\ tickets' = [tickets EXCEPT ![ticketId].encryptedSeatNumber = handle]
               /\ acl' = allow(allow(acl, handle, This), handle, sender)
               /\ last' = Call(op, "", NoRet,
                               <<<<"TicketLockStatusChanged", ticketId, sender>>>>)
               /\ UNCHANGED <<ticketCount, ownerTickets>>

\* unlockTicket (value = FALSE) and lockTicket (value = TRUE) differ in the constant only
SetLock(op, sender, ticketId, value) ==
    IF OwnerGateError(ticketId, sender) # ""
    THEN Revert(op, OwnerGateError(ticketId, sender))
    ELSE LET handle == NewHandle(cipher)
            IN /\ cipher' = Append(cipher, value)
               /\ tickets' = [tickets EXCEPT ![ticketId].isLocked = handle]
               /\ acl' = allow(allow(acl, handle, This), handle, sender)
               /\ last' = Call(op, "", NoRet,
                               <<<<"TicketLockStatusChanged", ticketId, sender>>>>)
               /\ UNCHANGED <<ticketCount, ownerTickets>>

\* unlockTicket storing the constant of lockTicket
unlockTicketLocks(sender, ticketId) == SetLock("unlockTicket", sender, ticketId, TRUE)

unlockTicket(sender, ticketId) == SetLock("unlockTicket", sender, ticketId, FALSE)

\* lockTicket storing the constant of unlockTicket
lockTicketUnlocks(sender, ticketId) == SetLock("lockTicket", sender, ticketId, FALSE)

lockTicket(sender, ticketId) == SetLock("lockTicket", sender, ticketId, TRUE)

\* transferTicket without the two FHE.allow calls for the new owner
transferTicketNoGrant(sender, ticketId, newOwner) ==
    IF TransferError(ticketId, sender, newOwner) # ""
    THEN Revert("transferTicket", TransferError(ticketId, sender, newOwner))
    ELSE LET previousOwner == tickets[ticketId].owner
             removed == [ownerTickets EXCEPT ![previousOwner] = RemoveTicket(@, ticketId)]
         IN /\ tickets' = [tickets EXCEPT ![ticketId].owner = newOwner]
            /\ ownerTickets' = [removed EXCEPT ![newOwner] = Push(@, ticketId)]
            /\ last' = Call("transferTicket", "", NoRet,
                            <<<<"TicketTransferred", ticketId, previousOwner, newOwner>>>>)
            /\ UNCHANGED <<ticketCount, cipher, acl>>

\* transferTicket reading previousOwner after the owner field was overwritten
transferTicketStaleOwner(sender, ticketId, newOwner) ==
    IF TransferError(ticketId, sender, newOwner) # ""
    THEN Revert("transferTicket", TransferError(ticketId, sender, newOwner))
    ELSE LET previousOwner == tickets[ticketId].owner
             removed == [ownerTickets EXCEPT ![previousOwner] = RemoveTicket(@, ticketId)]
         IN /\ tickets' = [tickets EXCEPT ![ticketId].owner = newOwner]
            /\ ownerTickets' = [removed EXCEPT ![newOwner] = Push(@, ticketId)]
            /\ acl' = allow(allow(acl, tickets[ticketId].encryptedSeatNumber, newOwner),
                            tickets[ticketId].isLocked, newOwner)
            /\ last' = Call("transferTicket", "", NoRet,
                            <<<<"TicketTransferred", ticketId, newOwner, newOwner>>>>)
            /\ UNCHANGED <<ticketCount, cipher>>

transferTicket(sender, ticketId, newOwner) ==
    IF TransferError(ticketId, sender, newOwner) # ""
    THEN Revert("transferTicket", TransferError(ticketId, sender, newOwner))
    ELSE LET previousOwner == tickets[ticketId].owner
             removed == [ownerTickets EXCEPT ![previousOwner] = RemoveTicket(@, ticketId)]
         IN /\ tickets' = [tickets EXCEPT ![ticketId].owner = newOwner]
            /\ ownerTickets' = [removed EXCEPT ![newOwner] = Push(@, ticketId)]
            /\ acl' = allow(allow(acl, tickets[ticketId].encryptedSeatNumber, newOwner),
                            tickets[ticketId].isLocked, newOwner)
            /\ last' = Call("transferTicket", "", NoRet,
                            <<<<"TicketTransferred", ticketId, previousOwner, newOwner>>>>)
            /\ UNCHANGED <<ticketCount, cipher>>

\* the registry state of the contract
Storage == [ticketCount |-> ticketCount, tickets |-> tickets, ownerTickets |-> ownerTickets]

\* The storage after each write of createTicket: the count, the record, the push to
\* the creator's list.
CreateWrites(sender, eventName, venue, date) ==
    LET ticketId == ticketCount
        counted == Increment(ticketCount)
        stored == [tickets EXCEPT ![ticketId] =
                     [eventName |-> eventName, venue |-> venue, date |-> date,
                      encryptedSeatNumber |-> NewHandle(cipher),
                      isLocked |-> NewHandle(cipher) + 1,
                      owner |-> sender, exists |-> TRUE]]
        pushed == [ownerTickets EXCEPT ![sender] = Push(@, ticketId)]
    IN << [ticketCount |-> counted, tickets |-> tickets, ownerTickets |-> ownerTickets],
          [ticketCount |-> counted, tickets |-> stored, ownerTickets |-> ownerTickets],
          [ticketCount |-> counted, tickets |-> stored, ownerTickets |-> pushed] >>

\* The write after which createTicket has the input proof verified
\* (FHE.fromExternal): the increment of the count.
CreateProofCheckAfter == 1

\* the storage at the moment the input proof is verified
CreateStorageAtProofCheck(sender, eventName, venue, date) ==
    IF CreateProofCheckAfter = 0 THEN Storage
    ELSE CreateWrites(sender, eventName, venue, date)[CreateProofCheckAfter]

\* The storage after each write of a transferTicket that passed its requires: the
\* owner field, the removal from the previous owner's list, the push to the new
\* owner's list.
TransferWrites(sender, ticketId, newOwner) ==
    LET previousOwner == tickets[ticketId].owner
        owned == [tickets EXCEPT ![ticketId].owner = newOwner]
        removed == [ownerTickets EXCEPT ![previousOwner] = RemoveTicket(@, ticketId)]
        pushed == [removed EXCEPT ![newOwner] = Push(@, ticketId)]
    IN << [tickets |-> owned, ownerTickets |-> ownerTickets],
          [tickets |-> owned, ownerTickets |-> removed],
          [tickets |-> owned, ownerTickets |-> pushed] >>

\* The write after which transferTicket calls out of the contract (FHE.allow, twice):
\* the only point inside the call where other code runs.
TransferExternalCallsAfter == 3

\* every write of the call exposed as it is made, as on a store without transactions
TransferObservableEveryWrite(sender, ticketId, newOwner) ==
    { TransferWrites(sender, ticketId, newOwner)[k] : k \in 1..3 }

\* The storage other code can run against because of the call: the one at its
\* external calls and the one it commits when it returns.
TransferObservable(sender, ticketId, newOwner) ==
    { TransferWrites(sender, ticketId, newOwner)[k] : k \in {TransferExternalCallsAfter, 3} }

\* One call by some account.  metadata and seats are what createTicket's callers
\* choose from; bound caps the ciphertexts of the run.
Step(metadata, seats, bound) ==
    \/ \E s \in Callers, i \in TicketIds :
          getEncryptedSeatNumber(s, i) /\ UNCHANGED hook
    \/ \E s \in Callers, i \in TicketIds :
          getEncryptedLockStatus(s, i) /\ UNCHANGED hook
    \/ \E s \in Callers, m \in metadata, n \in seats, p \in BOOLEAN :
          createTicket(s, m[1], m[2], m[3], n, p) /\ Len(cipher') <= bound /\ UNCHANGED hook
    \/ \E s \in Callers, i \in TicketIds :
          unlockTicket(s, i) /\ Len(cipher') <= bound /\ UNCHANGED hook
    \/ \E s \in Callers, i \in TicketIds :
          lockTicket(s, i) /\ Len(cipher') <= bound /\ UNCHANGED hook
    \/ \E s \in Callers, i \in TicketIds, o \in Addresses :
          transferTicket(s, i, o) /\ UNCHANGED hook

\* Every caller submits the same well-formed ticket.
Next == Step({<<"Concert", "Arena", "2025-03-15">>}, {42}, MaxHandles)

Spec == Init /\ [][Next]_vars

\* Callers choose each createTicket argument, the empty string included.
NextInputs == Step(Metadata, Seats, MaxInputHandles)

SpecInputs == Init /\ [][NextInputs]_vars

\* Callers choose the metadata of each ticket; two tickets fit.
NextMetadata == Step(Metadata, {42}, MaxMetadataHandles)

SpecMetadata == Init /\ [][NextMetadata]_vars

\* The ids of the tickets that exist when a run of SpecListed starts.
ListedIds == {i \in TicketIds : i < MaxListed}

\* the list createTicket has built for account a when the tickets from id i on were
\* created by creator[i]
RECURSIVE CreatedBy(_, _, _)
CreatedBy(creator, a, i) ==
    IF i \notin ListedIds THEN <<>>
    ELSE (IF creator[i] = a THEN <<i>> ELSE <<>>) \o CreatedBy(creator, a, i + 1)

\* the ciphertexts of k tickets nobody has locked or unlocked yet
RECURSIVE CreatedCipher(_)
CreatedCipher(k) ==
    IF k = 0 THEN <<>> ELSE CreatedCipher(k - 1) \o <<42, InitialLockValue>>

\* The contract after createTicket has succeeded once for every id of ListedIds,
\* each call by any of the callers.
InitListed ==
    \E creator \in [ListedIds -> Callers] :
        LET count == Cardinality(ListedIds) IN
        /\ tickets = [i \in TicketIds |->
              IF i \in ListedIds
              THEN [eventName |-> "Concert", venue |-> "Arena", date |-> "2025-03-15",
                    encryptedSeatNumber |-> 2 * i + 1, isLocked |-> 2 * i + 2,
                    owner |-> creator[i], exists |-> TRUE]
              ELSE EmptyTicket]
        /\ ticketCount = count
        /\ ownerTickets = [a \in Addresses |-> CreatedBy(creator, a, 0)]
        /\ cipher = CreatedCipher(count)
        /\ acl = { g \in (1..(2 * count)) \X (Callers \cup {This}) :
                      g[2] \in {This, creator[(g[1] - 1) \div 2]} }
        /\ last = Call("createTicket", "", count - 1,
                       <<<<"TicketCreated", count - 1, creator[count - 1], "Concert">>>>)
        /\ InitHook

\* The calls on a contract that holds the tickets of ListedIds: no further ticket fits.
NextListed == Step({<<"Concert", "Arena", "2025-03-15">>}, {42}, 2 * MaxListed)

SpecListed == InitListed /\ [][NextListed]_vars

\* ------------------------------------------------- the useTicketVault hook
\* the tickets shown on the page
UiTickets == {0, 1}

\* the promises createTicket awaits, in order
CreateAwaits == <<"encrypt", "createTicket", "wait", "refreshTickets">>
\* the promises decryptTicket awaits, in order
DecryptAwaits == <<"getEncryptedSeatNumber", "getEncryptedLockStatus", "loadOrSign", "userDecrypt">>
\* the promises lockTicket and unlockTicket await before they call decryptTicket
ToggleAwaits == <<"tx", "wait">>

\* the elements of a sequence of awaits
Awaits(awaits) == {awaits[k] : k \in 1..Len(awaits)}
\* the await that follows pc
NextAwait(awaits, pc) == awaits[(CHOOSE k \in 1..Len(awaits) : awaits[k] = pc) + 1]
\* the last await of the sequence
LastAwait(awaits) == awaits[Len(awaits)]

HookCall(fn, ticketId, pc) == [fn |-> fn, ticketId |-> ticketId, pc |-> pc]

\* the finally block that never deletes
ReleaseNever(set, ticketId) == set

\* the finally blocks: next.delete(ticketId)
Release(set, ticketId) == set \ {ticketId}

\* what the contract is while only the page acts
contract == <<tickets, ticketCount, ownerTickets, cipher, acl, last>>

\* createTicket of the hook up to its first await; ready is false when the guards
\* return early (no contract address, no FHEVM instance or no signer)
useCreateTicket(ready) ==
    /\ Len(calls) < MaxCalls
    /\ IF ready
       THEN /\ isCreating' = TRUE
            /\ calls' = Append(calls, HookCall("createTicket", NoRet, CreateAwaits[1]))
       ELSE /\ isCreating' = isCreating
            /\ calls' = Append(calls, HookCall("createTicket", NoRet, "done"))
    /\ UNCHANGED <<togglingTickets, decryptingTickets>>

\* decryptTicket of the hook up to its first await
useDecryptTicket(ticketId, ready) ==
    /\ Len(calls) < MaxCalls
    /\ IF ready
       THEN /\ decryptingTickets' = decryptingTickets \cup {ticketId}
            /\ calls' = Append(calls, HookCall("decryptTicket", ticketId, DecryptAwaits[1]))
       ELSE /\ decryptingTickets' = decryptingTickets
            /\ calls' = Append(calls, HookCall("decryptTicket", ticketId, "done"))
    /\ UNCHANGED <<togglingTickets, isCreating>>

\* unlockTicket and lockTicket of the hook up to their first await; they differ in
\* the contract function they call only
useToggleTicket(fn, ticketId, ready) ==
    /\ Len(calls) < MaxCalls
    /\ IF ready
       THEN /\ togglingTickets' = togglingTickets \cup {ticketId}
            /\ calls' = Append(calls, HookCall(fn, ticketId, ToggleAwaits[1]))
       ELSE /\ togglingTickets' = togglingTickets
            /\ calls' = Append(calls, HookCall(fn, ticketId, "done"))
    /\ UNCHANGED <<decryptingTickets, isCreating>>

useUnlockTicket(ticketId, ready) == useToggleTicket("unlockTicket", ticketId, ready)

useLockTicket(ticketId, ready) == useToggleTicket("lockTicket", ticketId, ready)

\* A promise a createTicket call awaits settles: on "ok" the call goes on to its
\* next await; on "throw", and after refreshTickets, it runs catch/finally and ends.
SettleCreate(k, outcome) ==
    /\ k \in 1..Len(calls)
    /\ calls[k].fn = "createTicket"
    /\ calls[k].pc \in Awaits(CreateAwaits)
    /\ outcome \in {"ok", "throw"}
    /\ IF outcome = "ok" /\ calls[k].pc # LastAwait(CreateAwaits)
       THEN /\ calls' = [calls EXCEPT ![k].pc = NextAwait(CreateAwaits, @)]
            /\ isCreating' = isCreating
       ELSE /\ calls' = [calls EXCEPT ![k].pc = "done"]
            /\ isCreating' = FALSE
    /\ UNCHANGED <<togglingTickets, decryptingTickets>>

\* A promise a decryptTicket call awaits settles, the call being the hook's
\* decryptTicket itself or the one lockTicket/unlockTicket awaits: on "ok" it goes
\* on; on "throw", on a missing signature ("null", from loadOrSign) and after
\* userDecrypt it runs its finally and returns.
SettleDecrypt(k, outcome) ==
    /\ k \in 1..Len(calls)
    /\ calls[k].pc \in Awaits(DecryptAwaits)
    /\ outcome \in {"ok", "throw", "null"}
    /\ outcome = "null" => calls[k].pc = "loadOrSign"
    /\ IF outcome = "ok" /\ calls[k].pc # LastAwait(DecryptAwaits)
       THEN /\ calls' = [calls EXCEPT ![k].pc = NextAwait(DecryptAwaits, @)]
            /\ decryptingTickets' = decryptingTickets
       ELSE /\ calls' = [calls EXCEPT ![k].pc =
                            IF calls[k].fn = "decryptTicket" THEN "done" ELSE "decryptTicket"]
            /\ decryptingTickets' = Release(decryptingTickets, calls[k].ticketId)
    /\ UNCHANGED <<togglingTickets, isCreating>>

\* A promise of lockTicket/unlockTicket itself settles: the transaction, the wait
\* for it, or the decryptTicket it called (which never rejects).  After the wait
\* the call enters decryptTicket, whose guards may return early (ready false).
SettleToggle(k, outcome, ready) ==
    /\ k \in 1..Len(calls)
    /\ calls[k].fn \in {"lockTicket", "unlockTicket"}
    /\ calls[k].pc \in Awaits(ToggleAwaits) \cup {"decryptTicket"}
    /\ outcome \in {"ok", "throw"}
    /\ calls[k].pc = "decryptTicket" => outcome = "ok"
    /\ IF outcome = "throw" \/ calls[k].pc = "decryptTicket"
       THEN /\ calls' = [calls EXCEPT ![k].pc = "done"]
            /\ togglingTickets' = Release(togglingTickets, calls[k].ticketId)
            /\ decryptingTickets' = decryptingTickets
       ELSE IF calls[k].pc # LastAwait(ToggleAwaits)
       THEN /\ calls' = [calls EXCEPT ![k].pc = NextAwait(ToggleAwaits, @)]
            /\ UNCHANGED <<togglingTickets, decryptingTickets>>
       ELSE IF ready
       THEN /\ calls' = [calls EXCEPT ![k].pc = DecryptAwaits[1]]
            /\ decryptingTickets' = decryptingTickets \cup {calls[k].ticketId}
            /\ togglingTickets' = togglingTickets
       ELSE /\ calls' = [calls EXCEPT ![k].pc = "decryptTicket"]
            /\ UNCHANGED <<togglingTickets, decryptingTickets>>
    /\ isCreating' = isCreating

\* One step of the page: the user starts a call or a promise settles.
NextHook ==
    \/ \E r \in BOOLEAN : useCreateTicket(r) /\ UNCHANGED contract
    \/ \E i \in UiTickets, r \in BOOLEAN : useDecryptTicket(i, r) /\ UNCHANGED contract
    \/ \E i \in UiTickets, r \in BOOLEAN : useUnlockTicket(i, r) /\ UNCHANGED contract
    \/ \E i \in UiTickets, r \in BOOLEAN : useLockTicket(i, r) /\ UNCHANGED contract
    \/ \E k \in 1..MaxCalls, o \in {"ok", "throw"} : SettleCreate(k, o) /\ UNCHANGED contract
    \/ \E k \in 1..MaxCalls, o \in {"ok", "throw", "null"} :
          SettleDecrypt(k, o) /\ UNCHANGED contract
    \/ \E k \in 1..MaxCalls, o \in {"ok", "throw"}, r \in BOOLEAN :
          SettleToggle(k, o, r) /\ UNCHANGED contract

SpecHook == Init /\ [][NextHook]_vars

\* ================================================================ claims
\* the ids in a list
Ids(list) == {list[k] : k \in 1..Len(list)}
\* how often ticketId occurs in list
Occurrences(list, ticketId) == Cardinality({k \in 1..Len(list) : list[k] = ticketId})
\* the tickets created so far
Existing == {i \in TicketIds : tickets[i].exists}
\* the clear lock flag of a ticket
LockValue(ticketId) == Clear(tickets[ticketId].isLocked)
\* the latest call was op and succeeded
Succeeded(op) == last.op = op /\ last.err = ""
\* the latest call was op and reverted with err
Reverted(op, err) == last.op = op /\ last.err = err
\* the step is a call by sender of one of the five functions that take a ticket
\* id (the owner-gated ones), with this id
IdCall(sender, ticketId) ==
    CASE last'.op = "getEncryptedSeatNumber" -> getEncryptedSeatNumber(sender, ticketId)
      [] last'.op = "getEncryptedLockStatus" -> getEncryptedLockStatus(sender, ticketId)
      [] last'.op = "lockTicket" -> lockTicket(sender, ticketId)
      [] last'.op = "unlockTicket" -> unlockTicket(sender, ticketId)
      [] last'.op = "transferTicket" ->
            \E o \in Addresses : transferTicket(sender, ticketId, o)
      [] OTHER -> FALSE

\* C1: in every reachable state, for every address P and ticket id i,
\* getOwnerTickets(P) contains i iff ticket i exists and its metadata names P as owner.
C1_OwnershipIndexConsistent ==
    \A P \in Addresses, i \in TicketIds :
        i \in Ids(getOwnerTickets(P)) <=>
            (getTicketMetadata(i).exists /\ getTicketMetadata(i).owner = P)

\* C1 witness: two tickets exist and one of them has just been transferred.
C1_Witness ==
    /\ Succeeded("transferTicket")
    /\ ticketCount = 2
    /\ \E P \in Callers : Len(getOwnerTickets(P)) = 2

\* C2: a call of an owner-gated function (getEncryptedSeatNumber,
\* getEncryptedLockStatus, lockTicket, unlockTicket, transferTicket) on an existing
\* ticket by an account that is not its owner reverts with "Not ticket owner" and leaves tickets, owner
\* lists, ticket count, ciphertexts and ACL as they were.
C2_NonOwnerRejected ==
    [][\A s \in Callers, i \in TicketIds :
          (tickets[i].exists /\ tickets[i].owner # s /\ IdCall(s, i)) =>
             /\ last' = Call(last'.op, "Not ticket owner", NoRet, <<>>)
             /\ UNCHANGED registry]_vars

\* C2 witness: a transfer attempted by a non-owner has just reverted, with two
\* tickets in the registry held by different accounts.
C2_Witness ==
    /\ Reverted("transferTicket", "Not ticket owner")
    /\ ticketCount = 2
    /\ tickets[0].owner # tickets[1].owner

\* C3 (as claimed): for every existing ticket, the only account allowed to decrypt
\* its seat handle or its current lock handle is the ticket's current owner.
C3_OnlyOwnerCanDecrypt ==
    \A i \in Existing, p \in Callers :
        (CanDecrypt(tickets[i].encryptedSeatNumber, p) \/ CanDecrypt(tickets[i].isLocked, p))
            => p = tickets[i].owner

\* the revert reason the tests expect for a createTicket with an empty field
InputError(m) ==
    IF m[1] = "" THEN "Event name cannot be empty"
    ELSE IF m[2] = "" THEN "Venue cannot be empty"
    ELSE "Date cannot be empty"

\* C4 (as claimed): createTicket with an empty eventName, venue or date (and a valid
\* proof) reverts with the matching "... cannot be empty" reason, creates no ticket
\* and leaves the ticket count unchanged.
C4_EmptyFieldRejected ==
    [][\A s \in Callers, m \in Metadata, n \in Seats :
          (createTicket(s, m[1], m[2], m[3], n, TRUE) /\ "" \in {m[1], m[2], m[3]}) =>
             /\ last' = Call("createTicket", InputError(m), NoRet, <<>>)
             /\ ticketCount' = ticketCount
             /\ tickets' = tickets]_vars

\* C5: a successful createTicket returns the ticket count before the call and
\* raises the count by one, no other call changes the count, and the existing ids
\* are always exactly 0 .. count-1.
C5_SequentialIds ==
    [][/\ Succeeded("createTicket")' =>
             (last'.ret = getTicketCount /\ getTicketCount' = getTicketCount + 1)
       /\ ~Succeeded("createTicket")' => getTicketCount' = getTicketCount
       /\ Existing' = 0..(getTicketCount' - 1)]_vars

\* C5 witness: the second creation returned id 1 after a lock/unlock of ticket 0,
\* the two tickets created by different accounts.
C5_Witness ==
    /\ Succeeded("createTicket")
    /\ last.ret = 1
    /\ tickets[0].isLocked = 3
    /\ tickets[0].owner # tickets[1].owner

\* C6: after a successful transferTicket(i, o) by s, s's list no longer contains i,
\* o's list contains i exactly once, the metadata names o as owner, every other id
\* is in the same lists as before and the ticket count is unchanged.
C6_TransferMovesOneMembership ==
    [][\A s \in Callers, i \in TicketIds, o \in Addresses :
          (Succeeded("transferTicket")' /\ transferTicket(s, i, o)) =>
             /\ i \notin Ids(getOwnerTickets(s))'
             /\ Occurrences(getOwnerTickets(o), i)' = 1
             /\ getTicketMetadata(i).owner' = o
             /\ \A j \in TicketIds \ {i}, P \in Addresses :
                   j \in Ids(getOwnerTickets(P)) <=> j \in Ids(getOwnerTickets(P))'
             /\ getTicketCount' = getTicketCount]_vars

\* C6 witness: a ticket has just been transferred away from an account that
\* still holds another ticket.
C6_Witness ==
    /\ Succeeded("transferTicket")
    /\ \E i \in Existing, A \in Callers, B \in Callers :
          /\ last.events = <<<<"TicketTransferred", i, A, B>>>>
          /\ Len(getOwnerTickets(A)) = 1
          /\ getOwnerTickets(B) = <<i>>

\* C7: transferTicket by the owner to address(0) reverts with "Invalid new owner"
\* and to the owner itself with "Cannot transfer to self"; tickets, owner lists,
\* ACL and count stay as they were.
C7_BadNewOwnerRejected ==
    [][\A s \in Callers, i \in TicketIds :
          (tickets[i].exists /\ tickets[i].owner = s /\ last'.op = "transferTicket") =>
             /\ transferTicket(s, i, Zero) =>
                   (last'.err = "Invalid new owner" /\ UNCHANGED registry)
             /\ transferTicket(s, i, s) =>
                   (last'.err = "Cannot transfer to self" /\ UNCHANGED registry)]_vars

\* C7 witness: an owner's transfer to itself has just reverted.
C7_Witness ==
    /\ Reverted("transferTicket", "Cannot transfer to self")
    /\ Existing # {}

\* C8: a call of an id-taking function with an id at or above the ticket count
\* reverts with "Ticket does not exist" and changes nothing; no record and no list
\* entry ever exists for such an id.
C8_UnknownIdRejected ==
    [][/\ \A s \in Callers, i \in TicketIds :
             (i >= getTicketCount /\ IdCall(s, i)) =>
                /\ last' = Call(last'.op, "Ticket does not exist", NoRet, <<>>)
                /\ UNCHANGED registry
       /\ \A i \in TicketIds :
             i >= getTicketCount' =>
                /\ ~getTicketMetadata(i).exists'
                /\ \A P \in Addresses : i \notin Ids(getOwnerTickets(P))']_vars

\* C8 witness: a transfer of a never-created id has just reverted in a registry
\* that holds tickets.
C8_Witness ==
    /\ Reverted("transferTicket", "Ticket does not exist")
    /\ Existing # {}

\* C9: right after a successful createTicket the new ticket's clear lock flag is
\* TRUE, and a TRUE flag becomes FALSE only by a successful unlockTicket of that
\* ticket by its owner.
C9_DefaultLocked ==
    [][/\ Succeeded("createTicket")' => LockValue(last.ret)' = TRUE
       /\ \A i \in Existing :
             (LockValue(i) = TRUE /\ LockValue(i)' = FALSE) =>
                last' = Call("unlockTicket", "", NoRet,
                             <<<<"TicketLockStatusChanged", i, tickets[i].owner>>>>)]_vars

\* C9 witness: a second ticket has just been created and is locked, while the
\* first one has been unlocked.
C9_Witness ==
    /\ Succeeded("createTicket")
    /\ last.ret = 1
    /\ LockValue(1) = TRUE
    /\ LockValue(0) = FALSE

\* C10: a successful unlockTicket leaves the clear lock flag FALSE and a successful
\* lockTicket leaves it TRUE, whatever it was; the flag of a ticket changes in no
\* step other than a successful lockTicket/unlockTicket of that ticket.
C10_LockStateMachine ==
    [][\A i \in Existing :
          /\ \A s \in Callers :
                /\ (Succeeded("unlockTicket")' /\ unlockTicket(s, i)) => LockValue(i)' = FALSE
                /\ (Succeeded("lockTicket")' /\ lockTicket(s, i)) => LockValue(i)' = TRUE
          /\ LockValue(i)' # LockValue(i) =>
                \E s \in Callers, op \in {"lockTicket", "unlockTicket"} :
                   last' = Call(op, "", NoRet, <<<<"TicketLockStatusChanged", i, s>>>>)]_vars

\* C10 witness: ticket 0 went Locked (created) -> Unlocked -> Locked.
C10_Witness ==
    /\ Succeeded("lockTicket")
    /\ tickets[0].isLocked = 4
    /\ <<cipher[2], cipher[3], cipher[4]>> = <<TRUE, FALSE, TRUE>>

\* the step is a call of op ("lockTicket" or "unlockTicket") by sender on ticketId
LockCall(op, sender, ticketId) ==
    /\ last'.op = op
    /\ IF op = "lockTicket" THEN lockTicket(sender, ticketId)
       ELSE unlockTicket(sender, ticketId)

\* C11: when the latest call was a successful lockTicket (unlockTicket) of a ticket
\* by its owner, the same call again succeeds too, the clear lock flag is TRUE
\* (FALSE) after it as it was before it, and the ticket's owner, every owner list
\* and the ticket count are unchanged.
C11_IdempotentLock ==
    [][\A s \in Callers, i \in Existing, op \in {"lockTicket", "unlockTicket"} :
          (last = Call(op, "", NoRet, <<<<"TicketLockStatusChanged", i, s>>>>)
           /\ LockCall(op, s, i)) =>
             /\ last'.err = ""
             /\ LockValue(i) = (op = "lockTicket")
             /\ LockValue(i)' = (op = "lockTicket")
             /\ getTicketMetadata(i).owner' = getTicketMetadata(i).owner
             /\ \A P \in Addresses : getOwnerTickets(P)' = getOwnerTickets(P)
             /\ getTicketCount' = getTicketCount]_vars

\* C11 witness: the only ticket has been locked twice since its creation.
C11_Witness ==
    /\ Succeeded("lockTicket")
    /\ getTicketCount = 1
    /\ tickets[0].isLocked = 4
    /\ <<cipher[3], cipher[4]>> = <<TRUE, TRUE>>

\* C12: no call changes the seat handle of an existing ticket, and a successful
\* getEncryptedSeatNumber returns that handle.
C12_SeatHandleImmutable ==
    [][/\ \A i \in Existing :
             tickets[i].encryptedSeatNumber' = tickets[i].encryptedSeatNumber
       /\ \A s \in Callers, i \in Existing :
             (Succeeded("getEncryptedSeatNumber")' /\ getEncryptedSeatNumber(s, i)) =>
                last'.ret = tickets[i].encryptedSeatNumber]_vars

\* C12 witness: the seat handle of ticket 0 is read by its second owner after a
\* lock/unlock and a transfer, and it is still the first handle registered.
C12_Witness ==
    /\ Succeeded("getEncryptedSeatNumber")
    /\ last.ret = 1
    /\ tickets[0].encryptedSeatNumber = 1
    /\ tickets[0].isLocked = 3
    /\ {<<1, "alice">>, <<1, "bob">>} \subseteq acl

C14_GrantsNotBroadcast ==
    [][\A g \in acl' \ acl :
          \/ g[2] = This
          \/ \E i \in Existing' :
                /\ g[1] \in {tickets[i].encryptedSeatNumber', tickets[i].isLocked'}
                /\ g[2] = tickets[i].owner']_vars

\* C14 witness: bob created tickets 0 and 1 and transferred ticket 1 to alice, who
\* is allowed on ticket 1's handles and on none of ticket 0's.
C14_Witness ==
    /\ Succeeded("transferTicket")
    /\ ticketCount = 2
    /\ tickets[0].owner = "bob"
    /\ tickets[1].owner = "alice"
    /\ {<<3, "alice">>, <<4, "alice">>} \subseteq acl
    /\ <<1, "alice">> \notin acl
    /\ <<2, "alice">> \notin acl

\* C15: a createTicket whose input proof is invalid reverts with InvalidProof and
\* leaves the tickets, the count and every owner list as they were; a createTicket
\* that succeeds right after it returns the count of that moment, the id the
\* rejected call would have assigned, and creates the ticket under that id.
C15_InvalidProofRollsBack ==
    [][last'.op = "createTicket" => \A s \in Callers, m \in Metadata, n \in Seats :
          /\ createTicket(s, m[1], m[2], m[3], n, FALSE) =>
                /\ last' = Call("createTicket", "InvalidProof", NoRet, <<>>)
                /\ tickets' = tickets
                /\ getTicketCount' = getTicketCount
                /\ \A P \in Addresses : getOwnerTickets(P)' = getOwnerTickets(P)
          /\ (/\ Reverted("createTicket", "InvalidProof")
              /\ Succeeded("createTicket")'
              /\ createTicket(s, m[1], m[2], m[3], n, TRUE)) =>
                /\ last'.ret = getTicketCount
                /\ ~tickets[getTicketCount].exists
                /\ tickets'[getTicketCount].exists]_vars

\* C15 witness: a createTicket with an invalid proof was rejected after ticket 0 had
\* been created, and ticket 1 does not exist.
C15_Witness ==
    /\ Reverted("createTicket", "InvalidProof")
    /\ getTicketCount = 1
    /\ tickets[0].exists
    /\ ~tickets[1].exists

\* C16: a successful createTicket emits exactly TicketCreated(id, caller, eventName)
\* for the id it returns, a successful lockTicket or unlockTicket exactly
\* TicketLockStatusChanged(id, caller), a successful transferTicket exactly
\* TicketTransferred(id, caller, newOwner) where the caller was the owner, and a
\* reverted call emits nothing.
C16_OneEventPerSuccess ==
    [][/\ Succeeded("createTicket")' => \A s \in Callers, m \in Metadata, n \in Seats :
             createTicket(s, m[1], m[2], m[3], n, TRUE) =>
                last'.events = <<<<"TicketCreated", last'.ret, s, m[1]>>>>
       /\ \A s \in Callers, i \in Existing, op \in {"lockTicket", "unlockTicket"} :
             (last'.err = "" /\ LockCall(op, s, i)) =>
                last'.events = <<<<"TicketLockStatusChanged", i, s>>>>
       /\ \A s \in Callers, i \in Existing, o \in Callers :
             (Succeeded("transferTicket")' /\ transferTicket(s, i, o)) =>
                /\ last'.events = <<<<"TicketTransferred", i, s, o>>>>
                /\ tickets[i].owner = s
       /\ last'.err # "" => last'.events = <<>>]_vars

\* C16 witness: bob, who created ticket 0 with seat 7, transferred it to alice.
C16_Witness ==
    /\ last = Call("transferTicket", "", NoRet, <<<<"TicketTransferred", 0, "bob", "alice">>>>)
    /\ tickets[0].owner = "alice"
    /\ Clear(tickets[0].encryptedSeatNumber) = 7

\* in storage st every existing ticket is listed under its owner and under nobody else
OwnerListed(st) ==
    \A j \in TicketIds :
        st.tickets[j].exists =>
            {P \in Addresses : j \in Ids(st.ownerTickets[P])} = {st.tickets[j].owner}

\* C17: the storage a call leaves behind, which is what every later read and
\* mutating call runs against, lists every existing ticket under its owner and
\* nobody else; a successful transferTicket commits the storage of its last write,
\* the storage at its external calls is that same storage, and the storage after its
\* first and second write, where owner field and lists disagree, is not observable.
C17_TransferNotPartial ==
    [][/\ OwnerListed([tickets |-> tickets', ownerTickets |-> ownerTickets'])
       /\ Succeeded("transferTicket")' => \A s \in Callers, i \in Existing, o \in Callers :
             transferTicket(s, i, o) =>
                /\ TransferWrites(s, i, o)[3] = [tickets |-> tickets', ownerTickets |-> ownerTickets']
                /\ \A st \in TransferObservable(s, i, o) : OwnerListed(st)
                /\ ~OwnerListed(TransferWrites(s, i, o)[1])
                /\ ~OwnerListed(TransferWrites(s, i, o)[2])]_vars

\* C17 witness: bob locks ticket 0 after alice transferred it to him; it is listed
\* under bob only.
C17_Witness ==
    /\ last = Call("lockTicket", "", NoRet, <<<<"TicketLockStatusChanged", 0, "bob">>>>)
    /\ <<1, "alice">> \in acl
    /\ getTicketMetadata(0).owner = "bob"
    /\ getOwnerTickets("bob") = <<0>>
    /\ getOwnerTickets("alice") = <<>>

\* C18: no call clears the exists flag of an existing ticket or changes its
\* eventName, venue or date, and no call lowers the ticket count.
C18_RecordsNeverRemoved ==
    [][/\ \A i \in Existing :
             /\ getTicketMetadata(i).exists'
             /\ getTicketMetadata(i).eventName' = getTicketMetadata(i).eventName
             /\ getTicketMetadata(i).venue' = getTicketMetadata(i).venue
             /\ getTicketMetadata(i).date' = getTicketMetadata(i).date
       /\ getTicketCount' >= getTicketCount]_vars

\* C18 witness: two tickets with different metadata exist, ticket 0 without a venue,
\* and the latest call transferred ticket 0 to the owner of ticket 1.
C18_Witness ==
    /\ Succeeded("transferTicket")
    /\ getTicketCount = 2
    /\ getTicketMetadata(0).venue = ""
    /\ getTicketMetadata(1).venue = "Arena"
    /\ getOwnerTickets(getTicketMetadata(1).owner) = <<1, 0>>

\* C19: every existing ticket is owned by one of the callers, never by address(0),
\* and is listed under at most one address.
C19_ExclusiveNonNullOwner ==
    \A i \in Existing :
        /\ getTicketMetadata(i).owner \in Callers
        /\ Cardinality({P \in Addresses : i \in Ids(getOwnerTickets(P))}) <= 1

\* C19 witness: a transfer to address(0) was rejected while alice and bob own one
\* ticket each.
C19_Witness ==
    /\ Reverted("transferTicket", "Invalid new owner")
    /\ getOwnerTickets("alice") = <<0>>
    /\ getOwnerTickets("bob") = <<1>>
    /\ getOwnerTickets(Zero) = <<>>

\* C20: the seat handle of the ticket a successful createTicket returns decrypts to
\* the seat submitted; no call changes what the seat handle of an existing ticket
\* decrypts to; and a successful getEncryptedSeatNumber returns that handle to the
\* ticket's owner, who is allowed to decrypt it.
C20_SeatRoundTrip ==
    [][/\ Succeeded("createTicket")' => \A s \in Callers, m \in Metadata, n \in Seats :
             createTicket(s, m[1], m[2], m[3], n, TRUE) =>
                Clear(tickets[last.ret].encryptedSeatNumber)' = n
       /\ \A i \in Existing :
             Clear(tickets[i].encryptedSeatNumber)' = Clear(tickets[i].encryptedSeatNumber)
       /\ Succeeded("getEncryptedSeatNumber")' => \A s \in Callers, i \in Existing :
             getEncryptedSeatNumber(s, i) =>
                /\ s = getTicketMetadata(i).owner
                /\ last'.ret = tickets[i].encryptedSeatNumber
                /\ CanDecrypt(last.ret, s)'
                /\ Clear(last.ret)' = Clear(tickets[i].encryptedSeatNumber)]_vars

\* C20 witness: bob reads the seat handle of ticket 0, which alice created with
\* seat 7, locked or unlocked once and transferred to him; it decrypts to 7 for bob.
C20_Witness ==
    /\ Succeeded("getEncryptedSeatNumber")
    /\ Clear(last.ret) = 7
    /\ CanDecrypt(last.ret, "bob")
    /\ getTicketMetadata(0).owner = "bob"
    /\ tickets[0].isLocked = 3
    /\ CanDecrypt(last.ret, "alice")

\* C21 (as claimed): when createTicket fails on the proof of its input, the check
\* that failed ran on the storage the call started with, no write applied yet.
C21_ValidateThenAct ==
    [][Reverted("createTicket", "InvalidProof")' =>
          \A s \in Callers, m \in Metadata, n \in Seats :
             createTicket(s, m[1], m[2], m[3], n, FALSE) =>
                CreateStorageAtProofCheck(s, m[1], m[2], m[3]) = Storage]_vars

\* C22: for every existing ticket, its owner and the contract itself are allowed on
\* the ticket's seat handle and on its current lock handle.
C22_OwnerHoldsCapability ==
    \A i \in Existing :
        \A p \in {getTicketMetadata(i).owner, This} :
            /\ <<tickets[i].encryptedSeatNumber, p>> \in acl
            /\ <<tickets[i].isLocked, p>> \in acl

\* C22 witness: alice created ticket 0, toggled its lock twice and transferred it to
\* bob, who is allowed on the current lock handle but not on the one it replaced.
C22_Witness ==
    /\ Succeeded("transferTicket")
    /\ getTicketMetadata(0).owner = "bob"
    /\ tickets[0].isLocked = 4
    /\ Allowed(4) = {This, "alice", "bob"}
    /\ Allowed(3) = {This, "alice"}
    /\ Allowed(1) = {This, "alice", "bob"}

\* C23: a successful transferTicket(i, o) by s finds i in the list L of s, at its
\* position k; afterwards the list of s is one shorter, holds the former last
\* element of L at k when k was not the last position and the elements of L at
\* every other position left, and the list of o is its former list with i appended.
C23_SwapWithLastAndPop ==
    [][Succeeded("transferTicket")' => \A s \in Callers, i \in Existing, o \in Callers :
          transferTicket(s, i, o) =>
             LET L == getOwnerTickets(s)
                 n == Len(L)
                 k == IndexFrom(L, i, 1)
             IN /\ k \in 1..n
                /\ Len(getOwnerTickets(s)') = n - 1
                /\ k < n => getOwnerTickets(s)'[k] = L[n]
                /\ \A j \in 1..(n - 1) : j # k => getOwnerTickets(s)'[j] = L[j]
                /\ getOwnerTickets(o)' = Append(getOwnerTickets(o), i)]_vars

\* C23 witness: alice, who held tickets 0, 1 and 2 in this order, transferred
\* ticket 0 to bob; ticket 2 took its place and ticket 1 stayed.
C23_Witness ==
    /\ last = Call("transferTicket", "", NoRet, <<<<"TicketTransferred", 0, "alice", "bob">>>>)
    /\ getOwnerTickets("alice") = <<2, 1>>
    /\ getOwnerTickets("bob") = <<0>>

\* the step is a successful lockTicket or unlockTicket of ticketId
Toggled(ticketId) ==
    /\ last'.err = ""
    /\ \E s \in Callers, op \in {"lockTicket", "unlockTicket"} : LockCall(op, s, ticketId)

\* the handles stored in the records of the existing tickets
StoredHandles == UNION { {tickets[i].encryptedSeatNumber, tickets[i].isLocked} : i \in Existing }

\* C24: a successful lockTicket or unlockTicket of a ticket stores a lock handle that
\* differs from the one it replaces, was never issued before and is stored in no
\* other record; every other call, transfers and calls on other tickets included,
\* leaves the ticket's lock handle as it is.
C24_FreshLockHandle ==
    [][\A i \in Existing :
          IF Toggled(i)
          THEN /\ tickets[i].isLocked' # tickets[i].isLocked
               /\ tickets[i].isLocked' \notin 1..Len(cipher)
               /\ tickets[i].isLocked' \notin StoredHandles
               /\ \A j \in Existing \ {i} : tickets[j].isLocked' # tickets[i].isLocked'
          ELSE tickets[i].isLocked' = tickets[i].isLocked]_vars

\* C24 witness: ticket 0 was unlocked twice; the second call replaced handle 3 by
\* handle 4 although both hold the same value, and ticket 0 was then transferred
\* with handle 4 still in place.
C24_Witness ==
    /\ Succeeded("transferTicket")
    /\ getTicketCount = 1
    /\ tickets[0].isLocked = 4
    /\ <<cipher[3], cipher[4]>> = <<FALSE, FALSE>>

\* C25: an id-taking call on a ticket that does not exist reverts with "Ticket does
\* not exist" whoever calls; a transferTicket of an existing ticket by an account
\* other than its owner reverts with "Not ticket owner" whatever newOwner is,
\* address(0) and the caller included; and a transferTicket that reverts with
\* "Invalid new owner" or "Cannot transfer to self" was called by the owner.
C25_ErrorPrecedence ==
    [][/\ last'.err # "Ticket does not exist" =>
             \A s \in Callers, i \in TicketIds :
                ~getTicketMetadata(i).exists => ~IdCall(s, i)
       /\ (last'.op = "transferTicket" /\ last'.err # "Not ticket owner") =>
             \A s \in Callers, i \in Existing :
                /\ getTicketMetadata(i).owner # s =>
                      \A o \in Addresses : ~transferTicket(s, i, o)
                /\ last'.err \in {"Invalid new owner", "Cannot transfer to self"} =>
                      \A o \in Addresses \ {Zero, s} : ~transferTicket(s, i, o)
       /\ (/\ last'.op = "transferTicket"
           /\ last'.err \in {"Invalid new owner", "Cannot transfer to self"}) =>
             \E s \in Callers, i \in Existing : \E o \in {Zero, s} :
                getTicketMetadata(i).owner = s /\ transferTicket(s, i, o)]_vars

\* C25 witness: a transferTicket of the only ticket, alice's, reverted on the owner
\* check; the caller was bob, whatever newOwner he named.
C25_Witness ==
    /\ Reverted("transferTicket", "Not ticket owner")
    /\ getTicketCount = 1
    /\ getTicketMetadata(0).owner = "alice"
    /\ getOwnerTickets("bob") = <<>>

\* C26: the owner of an existing ticket changes only in a successful transferTicket
\* of that ticket called by the owner, and a successful transferTicket(i, o) leaves
\* o as the owner of ticket i.
C26_OwnerChangesOnlyByTransfer ==
    [][\A i \in Existing :
          /\ getTicketMetadata(i).owner' # getTicketMetadata(i).owner =>
                /\ Succeeded("transferTicket")'
                /\ transferTicket(getTicketMetadata(i).owner, i, getTicketMetadata(i).owner')
          /\ Succeeded("transferTicket")' => \A s \in Callers, o \in Callers :
                transferTicket(s, i, o) => getTicketMetadata(i).owner' = o]_vars

\* C26 witness: alice created tickets 0 and 1 and transferred ticket 0 to bob;
\* ticket 1 is still hers.
C26_Witness ==
    /\ Succeeded("transferTicket")
    /\ getTicketMetadata(0).owner = "bob"
    /\ getTicketMetadata(1).owner = "alice"
    /\ Allowed(1) = {This, "alice", "bob"}
    /\ Allowed(3) = {This, "alice"}

\* the lengths of the lists of the addresses in S, added up
RECURSIVE ListedCount(_)
ListedCount(S) ==
    IF S = {} THEN 0
    ELSE LET a == CHOOSE a \in S : TRUE
         IN Len(getOwnerTickets(a)) + ListedCount(S \ {a})

\* how often ticketId occurs in the lists of the addresses in S
RECURSIVE ListedTimes(_, _)
ListedTimes(S, ticketId) ==
    IF S = {} THEN 0
    ELSE LET a == CHOOSE a \in S : TRUE
         IN Occurrences(getOwnerTickets(a), ticketId) + ListedTimes(S \ {a}, ticketId)

\* C27: every existing ticket id occurs exactly once in all owner lists together,
\* an id that does not exist occurs in none, and the lengths of all lists add up to
\* the ticket count.
C27_IndexPartition ==
    /\ \A i \in TicketIds :
          ListedTimes(Addresses, i) = IF getTicketMetadata(i).exists THEN 1 ELSE 0
    /\ \A P \in Addresses : Ids(getOwnerTickets(P)) \subseteq Existing
    /\ ListedCount(Addresses) = getTicketCount

\* C27 witness: the only ticket has been transferred away and back to alice, with a
\* lockTicket or unlockTicket by the other owner in between.
C27_Witness ==
    /\ Succeeded("transferTicket")
    /\ getTicketCount = 1
    /\ getTicketMetadata(0).owner = "alice"
    /\ getOwnerTickets("alice") = <<0>>
    /\ getOwnerTickets("bob") = <<>>
    /\ tickets[0].isLocked = 3
    /\ Allowed(2) = {This, "alice", "bob"}
    /\ Allowed(3) = {This, "alice", "bob"}

\* C28: after a successful lockTicket or unlockTicket of a ticket, only the contract
\* and the caller, the ticket's owner, are allowed on its current lock handle, so no
\* previous owner is; and while that handle stays current an account is added to
\* those allowed on it only by a successful transferTicket of the ticket to it.
C28_StaleCapabilityBounded ==
    [][\A i \in Existing :
          IF Toggled(i)
          THEN Allowed(tickets[i].isLocked)' = {This, getTicketMetadata(i).owner}
          ELSE \A p \in Allowed(tickets[i].isLocked)' \ Allowed(tickets[i].isLocked) :
                  /\ Succeeded("transferTicket")'
                  /\ transferTicket(getTicketMetadata(i).owner, i, p)]_vars

\* C28 witness: alice created ticket 0 and transferred it to bob, who then locked or
\* unlocked it; alice is allowed on the seat handle and on the replaced lock handle,
\* not on the current one.
C28_Witness ==
    /\ last.op \in {"lockTicket", "unlockTicket"}
    /\ last.err = ""
    /\ getTicketMetadata(0).owner = "bob"
    /\ tickets[0].isLocked = 3
    /\ Allowed(1) = {This, "alice", "bob"}
    /\ Allowed(2) = {This, "alice", "bob"}
    /\ Allowed(3) = {This, "bob"}

\* C29: a successful lockTicket or unlockTicket of ticket i leaves every field of
\* every record but the lock handle of ticket i, every owner list and the ticket
\* count as they were, removes no permission and adds permissions on the new lock
\* handle only.
C29_LockFrame ==
    [][(last'.op \in {"lockTicket", "unlockTicket"} /\ last'.err = "") =>
          \A s \in Callers, i \in Existing :
             LockCall(last'.op, s, i) =>
                /\ tickets' = [tickets EXCEPT ![i].isLocked = tickets[i].isLocked']
                /\ \A P \in Addresses : getOwnerTickets(P)' = getOwnerTickets(P)
                /\ getTicketCount' = getTicketCount
                /\ acl \subseteq acl'
                /\ \A g \in acl' \ acl : g[1] = tickets[i].isLocked']_vars

\* C29 witness: alice owns tickets 0 and 1 and has just locked ticket 1; ticket 0
\* and her list are as createTicket left them.
C29_Witness ==
    /\ Succeeded("lockTicket")
    /\ getOwnerTickets("alice") = <<0, 1>>
    /\ tickets[1].isLocked = 5
    /\ tickets[0].isLocked = 2
    /\ tickets[0].encryptedSeatNumber = 1
    /\ tickets[1].encryptedSeatNumber = 3

\* the calls that have not ended
Running == {k \in 1..Len(calls) : calls[k].pc # "done"}

\* the step ends call k
Ends(k) == k \in Running /\ calls[k].pc' = "done"

\* the tickets of the lockTicket and unlockTicket calls that run
BeingToggled ==
    {calls[k].ticketId : k \in {j \in Running : calls[j].fn \in {"lockTicket", "unlockTicket"}}}

\* the tickets of the calls that run inside decryptTicket
BeingDecrypted ==
    {calls[k].ticketId : k \in {j \in Running : calls[j].pc \in Awaits(DecryptAwaits)}}

\* a createTicket call runs
BeingCreated == \E k \in Running : calls[k].fn = "createTicket"

\* C30: the step that ends a lockTicket or unlockTicket call leaves its ticket out of
\* togglingTickets, the step in which a decryptTicket (called by the user or by
\* lockTicket/unlockTicket) returns leaves its ticket out of decryptingTickets, the
\* step that ends a createTicket call leaves isCreating false; a ticket is in
\* togglingTickets or decryptingTickets, and isCreating is true, only while such a
\* call runs; so when no call runs both sets are empty and isCreating is false.
C30_BusyFlagsReleased ==
    [][/\ \A k \in Running :
             /\ (Ends(k) /\ calls[k].fn \in {"lockTicket", "unlockTicket"}) =>
                   calls[k].ticketId \notin togglingTickets'
             /\ (calls[k].pc \in Awaits(DecryptAwaits)
                 /\ calls[k].pc' \notin Awaits(DecryptAwaits)) =>
                   calls[k].ticketId \notin decryptingTickets'
             /\ (Ends(k) /\ calls[k].fn = "createTicket") => ~isCreating'
       /\ togglingTickets' \subseteq BeingToggled'
       /\ decryptingTickets' \subseteq BeingDecrypted'
       /\ isCreating' => BeingCreated'
       /\ Running' = {} => (togglingTickets' = {} /\ decryptingTickets' = {} /\ ~isCreating')]_vars

\* C30 witness: a lockTicket and an unlockTicket of ticket 0 were started and both
\* have ended; nothing is marked busy.
C30_Witness ==
    /\ Len(calls) = 2
    /\ calls[1] = HookCall("lockTicket", 0, "done")
    /\ calls[2] = HookCall("unlockTicket", 0, "done")
    /\ togglingTickets = {}
    /\ decryptingTickets = {}
    /\ ~isCreating

====
